---- MODULE Spec2Model ----
(***************************************************************************)
(* CableScope host/firmware serial protocol.                               *)
(*                                                                         *)
(* Host side: SerialCommunicationManager (connect_to_port, disconnect,     *)
(* send_torque_command, read_data_packet, start_data_reading) and          *)
(* DataReadingWorker.run from python_gui/core/serial_manager.py, driven by *)
(* the MainWindow operations of python_gui/gui/main_window.py.             *)
(* Device side: the interactive and the random-torque firmware of          *)
(* python_gui/core/firmware_resources.py.                                  *)
(*                                                                         *)
(* Bytes are integers 0..255.  A float is the sequence of its four         *)
(* little-endian bytes (struct.pack('<f', x) / the firmware's union).      *)
(* Every pyserial call (in_waiting, read, write, reset_input_buffer,       *)
(* close) is one atomic step of the thread that makes it.                  *)
(***************************************************************************)
EXTENDS Integers, Sequences, FiniteSets, TLC

\* ------------------------------------------------------------------ bounds
MaxPolls   == 3    \* iterations of the 2.0 s / 0.01 s ACK wait loop
MaxRx      == 25   \* capacity of the host's inbound buffer for telemetry
MaxWorkers == 1    \* threads of the QThreadPool that run DataReadingWorker
MaxFrames  == 6    \* telemetry frames queued ahead of an ACK

\* ------------------------------------------------- protocol constants
HEADER1          == 255
HEADER2          == 255
CMD_SET_TORQUE   == 1
CMD_GET_DATA     == 2
DATA_PACKET_SIZE == 13
ACK_BYTE         == 170
MIN_AVAILABLE    == 16    \* read_data_packet: in_waiting < 16
ACK_KEEP         == 100   \* send_torque_command: keep last 100 bytes
MODE_THRESHOLD   == 10    \* connect_to_port: in_waiting > 10
RT_PACKET_SIZE   == 21    \* random-torque firmware DATA_PACKET_SIZE
CMD_START_SEQUENCE == 3   \* random-torque firmware start command

Workers == 1..MaxWorkers

\* --------------------------------------------------------- byte helpers
RECURSIVE SumBytes(_)
SumBytes(s) == IF s = <<>> THEN 0 ELSE Head(s) + SumBytes(Tail(s))

Min(a, b) == IF a < b THEN a ELSE b

Take(s, n) == SubSeq(s, 1, Min(n, Len(s)))
Drop(s, n) == SubSeq(s, Min(n, Len(s)) + 1, Len(s))

\* variant: struct.pack('>f', torque)
PackFloatBigEndian(t) == IF t = 0 THEN <<0, 0, 0, 0>> ELSE <<63, 128, 0, 0>>

\* struct.pack('<f', torque) for the torques the GUI sends: 0.0 and 1.0
PackFloat(t) == IF t = 0 THEN <<0, 0, 0, 0>> ELSE <<0, 0, 128, 63>>
Torques == {0, 1}

\* packet built by send_torque_command
CommandPacket(t) == <<HEADER1, HEADER2, CMD_SET_TORQUE>> \o PackFloat(t)

\* uint8_t checksum += packet[i]: the sum wraps at every addition
RECURSIVE AddU8(_, _)
AddU8(checksum, s) ==
    IF s = <<>> THEN checksum
    ELSE AddU8((checksum + Head(s)) % 256, Tail(s))

\* variant: checksum = ~checksum, the one's complement
OnesComplement(body) == 255 - AddU8(0, body)

\* firmware: checksum = (~checksum) + 1 over packet[2..n-2]; ~ is taken in
\* int and the result is stored back into a uint8_t
FirmwareChecksum(body) == ((255 - AddU8(0, body)) + 1) % 256

\* interactive firmware sendDataPacket: 17 bytes
DataPacketV2(torque, angle, pwm) ==
    LET body == <<DATA_PACKET_SIZE, CMD_GET_DATA>> \o torque \o angle \o pwm
    IN  <<HEADER1, HEADER2>> \o body \o <<FirmwareChecksum(body)>>

\* random-torque firmware sendDataPacket: 25 bytes
DataPacketV3(ms, desired, actual, pwm, angle) ==
    LET body == <<RT_PACKET_SIZE, CMD_GET_DATA>> \o ms \o desired \o actual
                    \o pwm \o angle
    IN  <<HEADER1, HEADER2>> \o body \o <<FirmwareChecksum(body)>>

AckFrame == <<HEADER1, HEADER2, ACK_BYTE>>

\* the for-loop of send_torque_command that looks for FF FF AA in buffer
HasAck(buffer) ==
    \E i \in 1..(Len(buffer) - 2) :
        /\ buffer[i] = HEADER1
        /\ buffer[i + 1] = HEADER2
        /\ buffer[i + 2] = ACK_BYTE

\* variant: buffer = buffer[:100]
TruncateHead(buffer) ==
    IF Len(buffer) > ACK_KEEP THEN SubSeq(buffer, 1, ACK_KEEP) ELSE buffer

\* if len(buffer) > 100: buffer = buffer[-100:]
Truncate(buffer) ==
    IF Len(buffer) > ACK_KEEP
    THEN SubSeq(buffer, Len(buffer) - ACK_KEEP + 1, Len(buffer))
    ELSE buffer

\* variant: the result is masked with 0x7F
HostChecksum7(packet_size, data13) ==
    LET calculated_checksum == packet_size + SumBytes(data13)
    IN  (((0 - calculated_checksum) - 1) + 1) % 128

\* host checksum of read_data_packet over packet_size and remaining_data[:13]
\* Python integers: ~c is -c - 1, and & 0xFF is the residue modulo 256
HostChecksum(packet_size, data13) ==
    LET calculated_checksum == packet_size + SumBytes(data13)
    IN  (((0 - calculated_checksum) - 1) + 1) % 256

\* ------------------------------------------------------------- floats
F_ZERO == <<0, 0, 0, 0>>        \* 0.0
F_BIG  == <<0, 0, 0, 255>>      \* 0xFF000000, a finite negative float
F_TINY == <<255, 170, 0, 0>>    \* 0x0000AAFF, a finite positive float

\* sensor readings of a device: plain values, or values whose float bytes
\* happen to contain FF FF AA
Readings == {"plain", "ff_ff_aa"}
Sample(r) == IF r = "plain" THEN <<F_ZERO, F_ZERO>> ELSE <<F_BIG, F_TINY>>

\* a device that runs neither firmware: at most 10 bytes, no ACK in them
NoiseChunk == <<255, 255, 13, 2, 0, 0, 0, 0, 0, 0>>

DeviceKinds == {"interactive", "autonomous", "silent"}

VARIABLES
    \* SerialCommunicationManager
    serial_port,              \* "None", "open" or "closed" (a closed handle)
    is_connected,
    firmware_mode,            \* "interactive" or "random_torque"
    mode_detection_complete,
    last_torque_command,
    \* main (GUI) thread: position, return stack, arguments and locals
    pc, ret, torque, force_send, buffer, polls,
    outcome,                  \* how the last send_torque_command ended
    connect_result,           \* what the last connect_to_port returned
    events,                   \* signals and calls of the current operation
    \* MainWindow
    is_data_acquisition_active,
    \* DataReadingWorker threads
    wpc,
    worker_error,             \* error_occurred raised by the latest read call
    last_data,                \* data_received emitted by the latest read call
    header_data,              \* local of each reader's read_data_packet call
    accepted,                 \* bytes the latest call consumed for its record
    data_counted,             \* the latest call incremented _data_count
    \* serial link and device
    rx,                       \* bytes waiting in the host's input buffer
    tx,                       \* bytes waiting in the device's input buffer
    io_fail,                  \* the port raises on every call (unplugged)
    devKind, devReadings, desiredTorque, noiseSent,
    ackInTime,                \* the awaited bytes arrived before the last poll
    feed,                     \* scripted inbound stream still to arrive
    wire                      \* the scripted stream as the device transmits it

hostVars   == <<serial_port, is_connected, firmware_mode,
                mode_detection_complete, last_torque_command>>
sendVars   == <<torque, force_send, buffer, polls>>
mainVars   == <<pc, ret, sendVars, outcome, connect_result, events>>
readVars   == <<worker_error, last_data, accepted, data_counted>>
workerVars == <<wpc, header_data, readVars>>
devVars    == <<devKind, devReadings, desiredTorque, noiseSent>>
linkVars   == <<rx, tx, io_fail, devVars, ackInTime, feed, wire>>
vars == <<hostVars, mainVars, is_data_acquisition_active, workerVars,
          linkVars>>

\* SerialCommunicationManager.__init__ and MainWindow.__init__
Init ==
    /\ serial_port = "None"
    /\ is_connected = FALSE
    /\ firmware_mode = "interactive"
    /\ mode_detection_complete = FALSE
    /\ last_torque_command = 0
    /\ pc = "idle" /\ ret = <<>>
    /\ torque = 0 /\ force_send = FALSE
    /\ buffer = <<>> /\ polls = 0
    /\ outcome = "none" /\ connect_result = "none"
    /\ events = <<>>
    /\ is_data_acquisition_active = FALSE
    /\ wpc = [w \in Workers |-> "off"]
    /\ worker_error = "none"
    /\ last_data = <<>>
    /\ header_data = [w \in Workers |-> <<>>]
    /\ accepted = <<>>
    /\ data_counted = FALSE
    /\ rx = <<>> /\ tx = <<>>
    /\ io_fail = FALSE
    /\ devKind \in DeviceKinds
    /\ devReadings \in IF devKind = "silent" THEN {"plain"} ELSE Readings
    /\ desiredTorque = F_ZERO
    /\ noiseSent = FALSE
    /\ ackInTime = FALSE
    /\ feed = <<>>
    /\ wire = <<>>

\* return from a manager method to its caller
Return == pc' = Head(ret) /\ ret' = Tail(ret)

\* a Qt signal emitted, or a call made, by the main thread
Ev(sig, arg) == [sig |-> sig, arg |-> arg]
Emit(sig, arg) == events' = Append(events, Ev(sig, arg))

\* ------------------------------------------------ send_torque_command
\* variant: the mode guard of send_torque_command is missing
CommandsAlwaysSent(mode) == FALSE

\* if self.firmware_mode == "random_torque": return True
CommandsUnsupported(mode) == mode = "random_torque"

\* variant: the wait loop has no deadline
DeadlineNever(p) == p > MaxPolls

\* while time.time() - start_time < 2.0, one iteration per 0.01 s sleep
DeadlineElapsed(p) == p >= MaxPolls

\* the device loop runs every few milliseconds: it has serviced every command
\* it received by the time an ACK wait times out, and by the time the host
\* issues its next command
DeviceServiced == Len(tx) < 3

\* what the bytes kept by a truncation end with: the start of a header or not
Tail2(b) == IF b[Len(b)] = HEADER1 THEN "header" ELSE "payload"

\* return of send_torque_command: its locals die
SendReturn(o) ==
    /\ outcome' = o
    /\ Return
    /\ torque' = 0 /\ force_send' = FALSE
    /\ buffer' = <<>> /\ polls' = 0

\* guards, packet construction, write and flush (lines 273-308)
SendBegin ==
    /\ pc = "s_begin"
    /\ DeviceServiced
    /\ UNCHANGED <<serial_port, is_connected, firmware_mode,
                   mode_detection_complete, connect_result,
                   is_data_acquisition_active, workerVars, rx, io_fail,
                   devVars, feed, wire>>
    /\ IF CommandsUnsupported(firmware_mode)
       THEN /\ SendReturn("noop")
            /\ UNCHANGED <<last_torque_command, events, tx, ackInTime>>
       ELSE IF (~force_send /\ (~is_connected \/ serial_port = "None"))
               \/ serial_port = "None"
       THEN /\ SendReturn("refused")
            /\ UNCHANGED <<last_torque_command, events, tx, ackInTime>>
       ELSE IF io_fail \/ serial_port = "closed"
       THEN \* write raises, caught by "except Exception"
            /\ SendReturn("error")
            /\ Emit("error_occurred", "send")
            /\ UNCHANGED <<last_torque_command, tx, ackInTime>>
       ELSE /\ tx' = tx \o CommandPacket(torque)
            /\ Emit("write", "set_torque")
            /\ last_torque_command' = torque
            /\ buffer' = <<>>
            /\ polls' = 0
            /\ ackInTime' = FALSE
            /\ outcome' = "waiting"
            /\ pc' = "s_loop"
            /\ UNCHANGED <<ret, torque, force_send>>

\* one iteration of the ACK wait loop (lines 315-335)
SendPoll ==
    /\ pc = "s_loop"
    /\ ~DeadlineElapsed(polls)
    /\ UNCHANGED <<hostVars, connect_result, is_data_acquisition_active,
                   workerVars, tx, io_fail, devVars, ackInTime, feed, wire>>
    /\ IF io_fail
       THEN \* in_waiting raises
            /\ SendReturn("error")
            /\ Emit("error_occurred", "send")
            /\ UNCHANGED rx
       ELSE IF Len(rx) > 0
       THEN LET b == buffer \o rx IN
            /\ rx' = <<>>
            /\ IF HasAck(b)
               THEN /\ SendReturn("acked")
                    /\ Emit("command_acknowledged", "")
               ELSE /\ buffer' = Truncate(b)
                    /\ polls' = Min(polls + 1, MaxPolls)
                    /\ IF Len(b) > ACK_KEEP
                       THEN Emit("keep_last", Tail2(b))
                       ELSE UNCHANGED events
                    /\ UNCHANGED <<pc, ret, torque, force_send, outcome>>
       ELSE /\ polls' = Min(polls + 1, MaxPolls)
            /\ UNCHANGED <<pc, ret, torque, force_send, buffer, outcome,
                           events, rx>>

\* the loop condition fails (lines 337-339)
SendTimeout ==
    /\ pc = "s_loop"
    /\ DeadlineElapsed(polls)
    /\ DeviceServiced
    /\ SendReturn("timeout")
    /\ Emit("error_occurred", "ack_timeout")
    /\ UNCHANGED <<hostVars, connect_result, is_data_acquisition_active,
                   workerVars, linkVars>>

\* the bool that send_torque_command returned
Succeeded(o) == o \in {"acked", "noop"}

\* ------------------------------------------------------- disconnect
\* variant: disconnect sends the zero torque in every mode
ZeroTorqueAlways(mode) == TRUE

\* if self.firmware_mode == "interactive": self.send_torque_command(0.0)
SendsZeroTorque(mode) == mode = "interactive"

\* lines 252-257
DisconnectBegin ==
    /\ pc = "d_begin"
    /\ UNCHANGED <<hostVars, buffer, polls, outcome, connect_result,
                   is_data_acquisition_active, workerVars, linkVars>>
    /\ IF serial_port = "open" /\ SendsZeroTorque(firmware_mode)
       THEN /\ torque' = 0 /\ force_send' = FALSE
            /\ Emit("call", "zero_torque")
            /\ pc' = "s_begin"
            /\ ret' = <<"d_close">> \o ret
       ELSE /\ pc' = "d_close"
            /\ UNCHANGED <<ret, torque, force_send, events>>

\* variant: the slot only updates the status widgets
OnConnectionChangedIgnored(connected, active) == active

\* MainWindow.on_connection_changed: stop_data_acquisition when the
\* connection is lost while acquisition is active
OnConnectionChanged(connected, active) ==
    IF ~connected /\ active THEN FALSE ELSE active

\* variant: disconnect leaves the detected mode in place
ModeKept(mode) == mode

\* self.firmware_mode = "interactive", for the next connection (line 267)
ModeReset(mode) == "interactive"

\* serial_port.close() and lines 262-271
DisconnectClose ==
    /\ pc = "d_close"
    /\ serial_port' = "None"
    /\ is_connected' = FALSE
    /\ firmware_mode' = ModeReset(firmware_mode)
    /\ mode_detection_complete' = FALSE
    /\ rx' = <<>>
    /\ Emit("connection_changed", "False")
    /\ is_data_acquisition_active' =
           OnConnectionChanged(FALSE, is_data_acquisition_active)
    /\ Return
    /\ UNCHANGED <<last_torque_command, sendVars, outcome, connect_result,
                   workerVars, tx, io_fail, devVars, ackInTime, feed, wire>>

\* -------------------------------------------------- connect_to_port
\* lines 180-182
ConnectBegin ==
    /\ pc = "c_begin"
    /\ IF is_connected
       THEN pc' = "d_begin" /\ ret' = <<"c_open">> \o ret
       ELSE pc' = "c_open" /\ UNCHANGED ret
    /\ UNCHANGED <<hostVars, sendVars, outcome, connect_result, events,
                   is_data_acquisition_active, workerVars, linkVars>>

\* serial.Serial(...) (lines 186-191); opening raises SerialException when
\* the device is absent, and may raise when a handle is still open on it
ConnectOpen ==
    /\ pc = "c_open"
    /\ \E opens \in IF io_fail THEN {FALSE}
                    ELSE IF serial_port = "open" THEN {TRUE, FALSE}
                    ELSE {TRUE} :
          IF opens
          THEN /\ serial_port' = "open"
               /\ rx' = <<>>
               /\ noiseSent' = FALSE
               /\ pc' = "c_settle"
               /\ UNCHANGED <<ret, connect_result, events>>
          ELSE /\ Emit("error_occurred", "connect")
               /\ connect_result' = "False"
               /\ Return
               /\ UNCHANGED <<serial_port, rx, noiseSent>>
    /\ UNCHANGED <<is_connected, firmware_mode, mode_detection_complete,
                   last_torque_command, sendVars, outcome,
                   is_data_acquisition_active, workerVars, tx, io_fail,
                   devKind, devReadings, desiredTorque, ackInTime, feed, wire>>

\* time.sleep(1.0) outlasts one iteration of every reader thread: each has
\* evaluated its loop condition since is_connected was last False
SettleElapsed == \A w \in DOMAIN wpc : wpc[w] = "off"

\* after the sleep: reset buffers and probe (lines 197-206)
ConnectProbe ==
    /\ pc = "c_settle"
    /\ SettleElapsed
    /\ IF io_fail
       THEN \* reset_input_buffer raises, caught by "except Exception"
            /\ Emit("error_occurred", "unexpected")
            /\ connect_result' = "False"
            /\ Return
            /\ UNCHANGED <<torque, force_send, rx>>
       ELSE /\ rx' = <<>>
            /\ torque' = 0 /\ force_send' = TRUE
            /\ Emit("call", "probe")
            /\ pc' = "s_begin"
            /\ ret' = <<"c_probed">> \o ret
            /\ UNCHANGED connect_result
    /\ UNCHANGED <<hostVars, buffer, polls, outcome,
                   is_data_acquisition_active, workerVars, tx, io_fail,
                   devVars, ackInTime, feed, wire>>

\* variant: the two signals in the opposite order
ConnectedSignalsSwapped(mode) ==
    <<Ev("connection_changed", "True"), Ev("firmware_mode_detected", mode)>>

\* firmware_mode_detected.emit(mode) ... connection_changed.emit(True)
ConnectedSignals(mode) ==
    <<Ev("firmware_mode_detected", mode), Ev("connection_changed", "True")>>

\* if not test_success / else (lines 209, 226-239)
ConnectProbed ==
    /\ pc = "c_probed"
    /\ IF Succeeded(outcome)
       THEN /\ firmware_mode' = "interactive"
            /\ mode_detection_complete' = TRUE
            /\ is_connected' = TRUE
            /\ events' = events \o ConnectedSignals("interactive")
            /\ connect_result' = "True"
            /\ Return
       ELSE /\ pc' = "c_wait"
            /\ UNCHANGED <<firmware_mode, mode_detection_complete,
                           is_connected, events, connect_result, ret>>
    /\ UNCHANGED <<serial_port, last_torque_command, sendVars, outcome,
                   is_data_acquisition_active, workerVars, linkVars>>

\* variant: the threshold test is not strict
UnsolicitedAtLeast(n) == n >= MODE_THRESHOLD

\* if self.serial_port.in_waiting > 10
Unsolicited(n) == n > MODE_THRESHOLD

\* both firmwares send a frame every 10 ms: after time.sleep(0.5) at least
\* one whole frame of a running firmware has arrived
FrameLen == IF devKind = "interactive" THEN 17 ELSE 25
StreamArrived == (devKind # "silent" /\ ~io_fail) => Len(rx) >= FrameLen

\* after time.sleep(0.5) (lines 212-225)
ConnectCheck ==
    /\ pc = "c_wait"
    /\ StreamArrived
    /\ IF io_fail
       THEN \* in_waiting raises, caught by "except Exception"
            /\ Emit("error_occurred", "unexpected")
            /\ connect_result' = "False"
            /\ UNCHANGED <<serial_port, is_connected, firmware_mode,
                           mode_detection_complete, rx>>
       ELSE IF Unsolicited(Len(rx))
       THEN /\ firmware_mode' = "random_torque"
            /\ mode_detection_complete' = TRUE
            /\ is_connected' = TRUE
            /\ events' = events \o ConnectedSignals("random_torque")
            /\ connect_result' = "True"
            /\ UNCHANGED <<serial_port, rx>>
       ELSE /\ serial_port' = "None"
            /\ rx' = <<>>
            /\ Emit("error_occurred", "communicate")
            /\ connect_result' = "False"
            /\ UNCHANGED <<is_connected, firmware_mode,
                           mode_detection_complete>>
    /\ Return
    /\ UNCHANGED <<last_torque_command, sendVars, outcome,
                   is_data_acquisition_active, workerVars, tx, io_fail,
                   devVars, ackInTime, feed, wire>>

\* ------------------------------------------------ MainWindow operations
\* MainWindow.connect_to_port -> serial_manager.connect_to_port
MW_Connect ==
    /\ pc = "idle"
    /\ pc' = "c_begin" /\ ret' = <<"done">>
    /\ UNCHANGED <<hostVars, sendVars, outcome, connect_result, events,
                   is_data_acquisition_active, workerVars, linkVars>>

\* MainWindow.disconnect_from_port (lines 435-445)
MW_Disconnect ==
    /\ pc = "idle"
    /\ is_data_acquisition_active' = FALSE
    /\ pc' = "d_begin" /\ ret' = <<"done">>
    /\ UNCHANGED <<hostVars, sendVars, outcome, connect_result, events,
                   workerVars, linkVars>>

\* MainWindow.send_torque_command -> serial_manager.send_torque_command
MW_SendTorque ==
    /\ pc = "idle"
    /\ torque' \in Torques
    /\ force_send' = FALSE
    /\ pc' = "s_begin" /\ ret' = <<"done">>
    /\ UNCHANGED <<hostVars, buffer, polls, outcome, connect_result, events,
                   is_data_acquisition_active, workerVars, linkVars>>

\* the slot returns to the Qt event loop
MW_Return ==
    /\ pc = "done"
    /\ pc' = "idle"
    /\ events' = <<>> /\ outcome' = "none" /\ connect_result' = "none"
    /\ ackInTime' = FALSE
    /\ UNCHANGED <<hostVars, ret, sendVars, is_data_acquisition_active,
                   workerVars, rx, tx, io_fail, devVars, feed, wire>>

\* MainWindow.start_data_acquisition -> start_data_reading (lines 310-339,
\* 429-440): a new DataReadingWorker is handed to the thread pool
MW_StartAcquisition ==
    /\ pc = "idle"
    /\ ~is_data_acquisition_active
    /\ is_connected
    /\ \E w \in DOMAIN wpc :
          /\ wpc[w] = "off"
          /\ wpc' = [wpc EXCEPT ![w] = "loop"]
    /\ is_data_acquisition_active' = TRUE
    /\ UNCHANGED <<hostVars, mainVars, header_data, readVars, linkVars>>

\* MainWindow.stop_data_acquisition (lines 341-364)
MW_StopAcquisition ==
    /\ pc = "idle"
    /\ is_data_acquisition_active
    /\ is_data_acquisition_active' = FALSE
    /\ UNCHANGED <<hostVars, mainVars, workerVars, linkVars>>

\* ------------------------------------------------- DataReadingWorker
\* while self.running and self.serial_manager.is_connected and
\* variant: the loop does not look at is_connected
LoopForever(connected) == TRUE

\* consecutive_errors < max_consecutive_errors: nothing ever calls stop()
\* and read_data_packet catches every exception, so running stays True and
\* consecutive_errors stays 0
LoopContinues(connected) == connected

\* loop condition, then read_data_packet up to the in_waiting test;
\* readVars hold what the latest call has emitted and counted
WorkerLoop(w) ==
    /\ wpc[w] = "loop"
    /\ IF ~LoopContinues(is_connected)
       THEN wpc' = [wpc EXCEPT ![w] = "off"] /\ worker_error' = "none"
       ELSE IF serial_port = "None"
       THEN UNCHANGED wpc /\ worker_error' = "none"
       ELSE IF io_fail \/ serial_port = "closed"
       THEN \* in_waiting raises: "Error reading data packet", return None
            worker_error' = "io" /\ UNCHANGED wpc
       ELSE IF Len(rx) < MIN_AVAILABLE
       THEN UNCHANGED wpc /\ worker_error' = "none"
       ELSE wpc' = [wpc EXCEPT ![w] = "hdr"] /\ worker_error' = "none"
    /\ last_data' = <<>> /\ accepted' = <<>> /\ data_counted' = FALSE
    /\ UNCHANGED <<hostVars, mainVars, is_data_acquisition_active,
                   header_data, linkVars>>

\* variant: the second header byte is not compared
HeaderSecondUnchecked(h) ==
    /\ Len(h) = 3
    /\ h[1] = HEADER1
    /\ h[3] = DATA_PACKET_SIZE

\* the header and size tests of lines 358-368 pass
HeaderAccepted(h) ==
    /\ Len(h) = 3
    /\ h[1] = HEADER1
    /\ h[2] = HEADER2
    /\ h[3] = DATA_PACKET_SIZE

\* header_data = read(3) and the header and size tests (lines 357-368)
WorkerHeader(w) ==
    /\ wpc[w] = "hdr"
    /\ IF io_fail \/ serial_port # "open"
       THEN /\ worker_error' = "io"
            /\ wpc' = [wpc EXCEPT ![w] = "loop"]
            /\ UNCHANGED <<rx, header_data>>
       ELSE IF ~HeaderAccepted(Take(rx, 3))
       THEN \* reset_input_buffer
            /\ rx' = <<>>
            /\ wpc' = [wpc EXCEPT ![w] = "loop"]
            /\ UNCHANGED <<worker_error, header_data>>
       ELSE /\ rx' = Drop(rx, 3)
            /\ header_data' = [header_data EXCEPT ![w] = Take(rx, 3)]
            /\ wpc' = [wpc EXCEPT ![w] = "rest"]
            /\ UNCHANGED worker_error
    /\ UNCHANGED <<hostVars, mainVars, is_data_acquisition_active,
                   last_data, accepted, data_counted, tx, io_fail, devVars,
                   ackInTime, feed, wire>>

\* torque, angle and pwm: remaining_data[1:5], [5:9] and [9:13], each through
\* struct.unpack('<f', ...), which keeps the bits of every non-NaN float
Decode(remaining_data) ==
    <<SubSeq(remaining_data, 2, 5), SubSeq(remaining_data, 6, 9),
      SubSeq(remaining_data, 10, 13)>>

\* remaining_data = read(packet_size + 1), which returns fewer bytes when
\* its timeout ends first; command test, decoding, checksum test,
\* _data_count += 1 and data_received.emit (lines 370-420, 518-522)
WorkerRest(w) ==
    /\ wpc[w] = "rest"
    /\ wpc' = [wpc EXCEPT ![w] = "loop"]
    /\ header_data' = [header_data EXCEPT ![w] = <<>>]
    /\ IF io_fail \/ serial_port # "open"
       THEN /\ worker_error' = "io"
            /\ UNCHANGED <<rx, last_data, accepted, data_counted>>
       ELSE LET packet_size == header_data[w][3]
                remaining_data == Take(rx, packet_size + 1) IN
            /\ rx' = Drop(rx, packet_size + 1)
            /\ IF Len(remaining_data) # packet_size + 1
               THEN UNCHANGED readVars
               ELSE IF remaining_data[1] # CMD_GET_DATA
               THEN UNCHANGED readVars
               ELSE IF remaining_data[14] #
                          HostChecksum(packet_size,
                                       SubSeq(remaining_data, 1, 13))
               THEN /\ worker_error' = "checksum"
                    /\ UNCHANGED <<last_data, accepted, data_counted>>
               ELSE /\ last_data' = Decode(remaining_data)
                    /\ accepted' = header_data[w] \o remaining_data
                    /\ data_counted' = TRUE
                    /\ UNCHANGED worker_error
    /\ UNCHANGED <<hostVars, mainVars, is_data_acquisition_active,
                   tx, io_fail, devVars, ackInTime, feed, wire>>

\* ----------------------------------------------------------- device
\* the bytes reach the host while its wait loop will still poll again
AckOnTime == pc = "s_loop" /\ ~DeadlineElapsed(polls)

\* bytes the device writes are received only while the host has the port open
Received(bytes) == IF serial_port = "open" THEN rx \o bytes ELSE rx

\* variant: the command byte is not compared
CommandAny(command) == TRUE

\* if (command == CMD_SET_TORQUE)
CommandRecognized(command) == command = CMD_SET_TORQUE

\* interactive firmware handleSerialCommands (lines 111-155)
DevHandleInteractive ==
    /\ devKind = "interactive"
    /\ ~io_fail
    /\ Len(tx) >= 3
    /\ IF tx[1] # HEADER1
       THEN tx' = Drop(tx, 1) /\ UNCHANGED <<rx, desiredTorque, ackInTime>>
       ELSE IF tx[2] # HEADER2
       THEN tx' = Drop(tx, 2) /\ UNCHANGED <<rx, desiredTorque, ackInTime>>
       ELSE IF ~CommandRecognized(tx[3])
       THEN tx' = Drop(tx, 3) /\ UNCHANGED <<rx, desiredTorque, ackInTime>>
       ELSE IF Len(tx) < 7
       THEN \* the 4 torque bytes did not arrive within 100 ms
            tx' = Drop(tx, 3) /\ UNCHANGED <<rx, desiredTorque, ackInTime>>
       ELSE /\ desiredTorque' = SubSeq(tx, 4, 7)
            /\ tx' = Drop(tx, 7)
            /\ rx' = Received(AckFrame)
            /\ ackInTime' = (ackInTime \/ (AckOnTime /\ serial_port = "open"))
    /\ UNCHANGED <<hostVars, mainVars, is_data_acquisition_active,
                   workerVars, io_fail, devKind, devReadings, noiseSent, feed,
                   wire>>

\* random-torque firmware handleSerialCommands (lines 481-507); the host
\* never sends CMD_START_SEQUENCE, so currentPhase stays PHASE_IDLE
DevHandleAutonomous ==
    /\ devKind = "autonomous"
    /\ ~io_fail
    /\ Len(tx) >= 3
    /\ IF tx[1] # HEADER1
       THEN tx' = Drop(tx, 1) /\ UNCHANGED rx
       ELSE IF tx[2] # HEADER2
       THEN tx' = Drop(tx, 2) /\ UNCHANGED rx
       ELSE /\ tx' = Drop(tx, 3)
            /\ rx' = IF tx[3] = CMD_START_SEQUENCE
                     THEN Received(AckFrame) ELSE rx
    /\ UNCHANGED <<hostVars, mainVars, is_data_acquisition_active,
                   workerVars, io_fail, devVars, ackInTime, feed, wire>>

\* a device that runs neither firmware discards what it is sent
DevHandleSilent ==
    /\ devKind = "silent"
    /\ ~io_fail
    /\ tx # <<>>
    /\ tx' = <<>>
    /\ UNCHANGED <<hostVars, mainVars, is_data_acquisition_active,
                   workerVars, rx, io_fail, devVars, ackInTime, feed, wire>>

\* sendDataPacket of either firmware, every dataInterval
DevEmit ==
    /\ devKind # "silent"
    /\ ~io_fail
    /\ serial_port = "open"
    /\ LET v == Sample(devReadings)
           f == IF devKind = "interactive"
                THEN DataPacketV2(v[1], v[2], F_ZERO)
                ELSE DataPacketV3(F_ZERO, F_ZERO, v[1], v[2], F_ZERO)
       IN  /\ Len(rx) + Len(f) <= MaxRx
           /\ rx' = rx \o f
    /\ UNCHANGED <<hostVars, mainVars, is_data_acquisition_active,
                   workerVars, tx, io_fail, devVars, ackInTime, feed, wire>>

\* the few stray bytes of a device that runs neither firmware
DevNoise ==
    /\ devKind = "silent"
    /\ ~io_fail
    /\ serial_port = "open"
    /\ ~noiseSent
    /\ noiseSent' = TRUE
    /\ rx' = rx \o NoiseChunk
    /\ UNCHANGED <<hostVars, mainVars, is_data_acquisition_active,
                   workerVars, tx, io_fail, devKind, devReadings,
                   desiredTorque, ackInTime, feed, wire>>

\* the device is unplugged: from now on every call on the port raises
Unplug ==
    /\ ~io_fail
    /\ io_fail' = TRUE
    /\ rx' = <<>> /\ tx' = <<>>
    /\ UNCHANGED <<hostVars, mainVars, is_data_acquisition_active,
                   workerVars, devVars, ackInTime, feed, wire>>

\* the device is plugged in again; a handle opened before stays broken
Replug ==
    /\ io_fail
    /\ serial_port # "open"
    /\ io_fail' = FALSE
    /\ UNCHANGED <<hostVars, mainVars, is_data_acquisition_active,
                   workerVars, rx, tx, devVars, ackInTime, feed, wire>>

\* ------------------------------------------------------ specification
MainStep ==
    \/ SendBegin \/ SendPoll \/ SendTimeout
    \/ DisconnectBegin \/ DisconnectClose
    \/ ConnectBegin \/ ConnectOpen \/ ConnectProbe \/ ConnectProbed
    \/ ConnectCheck
    \/ MW_Return

UserStep ==
    \/ MW_Connect \/ MW_Disconnect \/ MW_SendTorque
    \/ MW_StartAcquisition \/ MW_StopAcquisition

WorkerStep(w) == WorkerLoop(w) \/ WorkerHeader(w) \/ WorkerRest(w)

DevHandle == DevHandleInteractive \/ DevHandleAutonomous \/ DevHandleSilent

DevSend == DevEmit \/ DevNoise

Next ==
    \/ UserStep
    \/ MainStep
    \/ \E w \in Workers : WorkerStep(w)
    \/ DevHandle
    \/ DevSend
    \/ Unplug \/ Replug

Spec == Init /\ [][Next]_vars

\* threads that are running keep running and the device keeps running; the
\* user and the cable are free to do nothing
FairSpec ==
    /\ Spec
    /\ WF_vars(MainStep)
    /\ \A w \in Workers : WF_vars(WorkerStep(w))
    /\ WF_vars(DevHandle)
    /\ WF_vars(DevSend)

\* ------------------------------------------- ACK scan over a stream
\* n telemetry frames of the interactive firmware, back to back
RECURSIVE Frames(_)
Frames(n) ==
    IF n = 0 THEN <<>>
    ELSE DataPacketV2(F_ZERO, F_ZERO, F_ZERO) \o Frames(n - 1)

\* inbound streams that hold an ACK: telemetry, the ACK, more telemetry
AckStreams ==
    { Frames(n) \o AckFrame \o Frames(t) : n \in 0..MaxFrames, t \in 0..1 }

\* sizes in which the driver hands over the bytes of the stream
ChunkSizes == {1, 2, 16, 100}

\* send_torque_command has written its packet on a connected interactive
\* port (line 305) and the device's answer is on the wire
InitAck ==
    /\ serial_port = "open"
    /\ is_connected = TRUE
    /\ firmware_mode = "interactive"
    /\ mode_detection_complete = TRUE
    /\ last_torque_command = 0
    /\ pc = "s_loop" /\ ret = <<"done">>
    /\ torque = 0 /\ force_send = FALSE
    /\ buffer = <<>> /\ polls = 0
    /\ outcome = "waiting" /\ connect_result = "none"
    /\ events = <<Ev("write", "set_torque")>>
    /\ is_data_acquisition_active = FALSE
    /\ wpc = [w \in Workers |-> "off"]
    /\ worker_error = "none"
    /\ last_data = <<>>
    /\ header_data = [w \in Workers |-> <<>>]
    /\ accepted = <<>>
    /\ data_counted = FALSE
    /\ rx = <<>> /\ tx = <<>>
    /\ io_fail = FALSE
    /\ devKind = "interactive"
    /\ devReadings = "plain"
    /\ desiredTorque = F_ZERO
    /\ noiseSent = FALSE
    /\ ackInTime = FALSE
    /\ feed \in AckStreams
    /\ wire = <<>>

\* the next bytes of the stream reach the port's input buffer; the stream is
\* delivered in time when its last byte does so while a poll is still to come
Arrive ==
    /\ pc = "s_loop"
    /\ feed # <<>>
    /\ \E k \in ChunkSizes :
          /\ k <= Len(feed)
          /\ rx' = rx \o Take(feed, k)
          /\ feed' = Drop(feed, k)
    /\ ackInTime' = (ackInTime \/ (feed' = <<>> /\ AckOnTime))
    /\ UNCHANGED <<hostVars, mainVars, is_data_acquisition_active,
                   workerVars, tx, io_fail, devVars, wire>>

NextAck == Arrive \/ SendPoll \/ SendTimeout \/ MW_Return

SpecAck == InitAck /\ [][NextAck]_vars

\* ---------------------------------------------------------- SpecScan
\* read_data_packet polled by a reader on a connected interactive port,
\* against scripted inbound streams; a stream is a sequence of segments and
\* each segment reaches the input buffer at once
F_ONE == <<0, 0, 128, 63>>      \* 1.0
F_TWO == <<0, 0, 0, 64>>        \* 2.0
F_PWM == <<0, 0, 75, 68>>       \* 812.0
F_SUB == <<241, 0, 0, 0>>       \* 0x000000F1, a subnormal; 13 + 2 + 241 = 256

FieldValues == {F_ZERO, F_BIG, F_TINY, F_ONE, F_SUB}

\* millis() as the random-torque firmware packs it: 0.0 and 1000.0
Timestamps == {F_ZERO, <<0, 0, 122, 68>>}

V2Frames == { DataPacketV2(t, a, p) : t, a, p \in FieldValues }

V3Frames ==
    { DataPacketV3(ms, d, t, p, a) :
        ms \in Timestamps, d \in {F_ZERO, F_ONE}, t, p, a \in FieldValues }

EncodedFrames == V2Frames \cup V3Frames

GoodFrame == DataPacketV2(F_ONE, F_TWO, F_PWM)
GoodRecord == <<F_ONE, F_TWO, F_PWM>>

\* byte b with bit k inverted
FlipBit(b, k) ==
    IF (b \div (2 ^ k)) % 2 = 1 THEN b - 2 ^ k ELSE b + 2 ^ k

\* frame f with bit k of its i-th byte inverted
Flip(f, i, k) == [f EXCEPT ![i] = FlipBit(f[i], k)]

\* the frames whose bits are inverted: distinct fields, and fields with
\* set high bits
FlipBases == {GoodFrame, DataPacketV2(F_BIG, F_TINY, F_ONE)}

\* positions 4..16 of a 17-byte frame: the command byte and the floats
PayloadFlips(f) == { Flip(f, i, k) : i \in 4..16, k \in 0..7 }

\* positions 1..3 and 17: header, length and checksum
FramingFlips(f) == { Flip(f, i, k) : i \in {1, 2, 3, 17}, k \in 0..7 }

\* bytes that are not the start of a frame
Garbage ==
    { <<0>>, <<255>>, <<1, 2, 3>>, AckFrame, <<255, 255, 13, 2, 0>>,
      NoiseChunk \o NoiseChunk }

WholeStreams   == { <<f>> : f \in EncodedFrames }
CorruptStreams ==
    { <<x, GoodFrame>> :
        x \in UNION { PayloadFlips(f) \cup FramingFlips(f) : f \in FlipBases } }
GarbageStreams == { <<g, GoodFrame>> : g \in Garbage }
SplitStreams   ==
    { <<Take(GoodFrame, k), Drop(GoodFrame, k)>> : k \in 1..16 }

ScanStreams ==
    WholeStreams \cup CorruptStreams \cup GarbageStreams \cup SplitStreams

\* connected to the interactive firmware, acquisition started once (one
\* reader running), nothing received yet
InitScan ==
    /\ serial_port = "open"
    /\ is_connected = TRUE
    /\ firmware_mode = "interactive"
    /\ mode_detection_complete = TRUE
    /\ last_torque_command = 0
    /\ pc = "idle" /\ ret = <<>>
    /\ torque = 0 /\ force_send = FALSE
    /\ buffer = <<>> /\ polls = 0
    /\ outcome = "none" /\ connect_result = "none"
    /\ events = <<>>
    /\ is_data_acquisition_active = TRUE
    /\ wpc = [w \in Workers |-> IF w = 1 THEN "loop" ELSE "off"]
    /\ worker_error = "none"
    /\ last_data = <<>>
    /\ header_data = [w \in Workers |-> <<>>]
    /\ accepted = <<>>
    /\ data_counted = FALSE
    /\ rx = <<>> /\ tx = <<>>
    /\ io_fail = FALSE
    /\ devKind = "interactive"
    /\ devReadings = "plain"
    /\ desiredTorque = F_ZERO
    /\ noiseSent = FALSE
    /\ ackInTime = FALSE
    /\ wire \in ScanStreams
    /\ feed = wire

\* the next segment of the stream reaches the port's input buffer
ArriveScan ==
    /\ feed # <<>>
    /\ rx' = rx \o Head(feed)
    /\ feed' = Tail(feed)
    /\ UNCHANGED <<hostVars, mainVars, is_data_acquisition_active,
                   workerVars, tx, io_fail, devVars, ackInTime, wire>>

NextScan == ArriveScan \/ (\E w \in Workers : WorkerStep(w))

SpecScan == InitScan /\ [][NextScan]_vars

\* the driver delivers what is on the wire, and the reader thread keeps
\* running (QThreadPool, lines 429-440)
FairScan ==
    /\ SpecScan
    /\ WF_vars(ArriveScan)
    /\ \A w \in Workers : WF_vars(WorkerStep(w))

\* ---------------------------------------------------------- SpecPool
\* the GUI against the interactive firmware, with a thread pool that has a
\* thread to spare (QThreadPool's default is one thread per core)
PoolSlots == 1..(MaxWorkers + 1)

InitPool ==
    /\ serial_port = "None"
    /\ is_connected = FALSE
    /\ firmware_mode = "interactive"
    /\ mode_detection_complete = FALSE
    /\ last_torque_command = 0
    /\ pc = "idle" /\ ret = <<>>
    /\ torque = 0 /\ force_send = FALSE
    /\ buffer = <<>> /\ polls = 0
    /\ outcome = "none" /\ connect_result = "none"
    /\ events = <<>>
    /\ is_data_acquisition_active = FALSE
    /\ wpc = [w \in PoolSlots |-> "off"]
    /\ worker_error = "none"
    /\ last_data = <<>>
    /\ header_data = [w \in PoolSlots |-> <<>>]
    /\ accepted = <<>>
    /\ data_counted = FALSE
    /\ rx = <<>> /\ tx = <<>>
    /\ io_fail = FALSE
    /\ devKind = "interactive"
    /\ devReadings = "plain"
    /\ desiredTorque = F_ZERO
    /\ noiseSent = FALSE
    /\ ackInTime = FALSE
    /\ feed = <<>>
    /\ wire = <<>>

NextPool ==
    \/ UserStep
    \/ MainStep
    \/ \E w \in PoolSlots : WorkerStep(w)
    \/ DevHandleInteractive
    \/ DevEmit

SpecPool == InitPool /\ [][NextPool]_vars

\* the main thread, every started reader and the firmware's loop keep
\* running
FairPool ==
    /\ SpecPool
    /\ WF_vars(MainStep)
    /\ \A w \in PoolSlots : WF_vars(WorkerStep(w))
    /\ WF_vars(DevHandleInteractive)
    /\ WF_vars(DevEmit)

\* ----------------------------------------------------------- SpecDev
\* handleSerialCommands of the interactive firmware against scripted
\* command streams; a stream is a sequence of segments, and a segment that
\* has not arrived when the parser looks is one that came too late for it
Prefixes ==
    { <<255, 255, 7>>, <<255, 255, 2>>, <<0>>, <<1, 2, 3>>, <<255, 0>>,
      <<255>>, <<255, 255>>, <<0, 255>> }

\* bytes before a complete SET_TORQUE frame for 1.0, arriving before the
\* frame or together with it
PrefixStreams ==
    { <<pre, CommandPacket(1)>> : pre \in Prefixes } \cup
    { <<pre \o CommandPacket(1)>> : pre \in Prefixes }

\* a SET_TORQUE frame that arrives in two parts
SplitCommands ==
    { <<Take(CommandPacket(1), k), Drop(CommandPacket(1), k)>> : k \in 1..6 }

\* frames back to back
CommandRuns ==
    { <<CommandPacket(1)>>, <<CommandPacket(1), CommandPacket(0)>>,
      <<CommandPacket(1) \o CommandPacket(0)>>,
      <<CommandPacket(0), CommandPacket(1), CommandPacket(0)>> }

\* a frame whose last two payload bytes come with the next frame
LatePayload ==
    <<Take(CommandPacket(1), 5), Drop(CommandPacket(1), 5) \o CommandPacket(1)>>

CmdStreams ==
    PrefixStreams \cup SplitCommands \cup CommandRuns \cup {LatePayload}

\* the interactive firmware after setup(), its port opened by a host that
\* sends nothing of its own
InitDev ==
    /\ serial_port = "open"
    /\ is_connected = TRUE
    /\ firmware_mode = "interactive"
    /\ mode_detection_complete = TRUE
    /\ last_torque_command = 0
    /\ pc = "idle" /\ ret = <<>>
    /\ torque = 0 /\ force_send = FALSE
    /\ buffer = <<>> /\ polls = 0
    /\ outcome = "none" /\ connect_result = "none"
    /\ events = <<>>
    /\ is_data_acquisition_active = FALSE
    /\ wpc = [w \in Workers |-> "off"]
    /\ worker_error = "none"
    /\ last_data = <<>>
    /\ header_data = [w \in Workers |-> <<>>]
    /\ accepted = <<>>
    /\ data_counted = FALSE
    /\ rx = <<>> /\ tx = <<>>
    /\ io_fail = FALSE
    /\ devKind = "interactive"
    /\ devReadings = "plain"
    /\ desiredTorque = F_ZERO
    /\ noiseSent = FALSE
    /\ ackInTime = FALSE
    /\ wire \in CmdStreams
    /\ feed = wire

\* the next segment of the stream reaches the device's receive buffer
ArriveCmd ==
    /\ feed # <<>>
    /\ tx' = tx \o Head(feed)
    /\ feed' = Tail(feed)
    /\ UNCHANGED <<hostVars, mainVars, is_data_acquisition_active,
                   workerVars, rx, io_fail, devVars, ackInTime, wire>>

NextDev == ArriveCmd \/ DevHandleInteractive

SpecDev == InitDev /\ [][NextDev]_vars

\* loop() calls handleSerialCommands on every pass (lines 87-105)
FairDev ==
    /\ SpecDev
    /\ WF_vars(ArriveCmd)
    /\ WF_vars(DevHandleInteractive)

\* ---------------------------------------------------------- SpecFifo
\* a reader polls read_data_packet while send_torque_command, on the main
\* thread, waits for its ACK on the same port object: both read from the one
\* input buffer and no lock orders their calls
F_239 == <<239, 0, 0, 0>>       \* 0x000000EF, a subnormal
F_228 == <<228, 0, 0, 0>>       \* 0x000000E4, a subnormal

\* two consecutive telemetry frames of the interactive firmware
FramePairs ==
    { <<GoodFrame, DataPacketV2(F_TWO, F_ONE, F_PWM)>>,
      <<DataPacketV2(F_ZERO, F_ZERO, F_239),
        DataPacketV2(F_ZERO, F_ZERO, F_228)>> }

\* what the device transmits: two frames, then the ACK of the command
FifoBytes == { fp[1] \o fp[2] \o AckFrame : fp \in FramePairs }

\* the stream reaches the input buffer in one piece or in two
FifoStreams ==
    { <<s>> : s \in FifoBytes } \cup
    { <<Take(s, k), Drop(s, k)>> : s \in FifoBytes, k \in 1..36 }

\* the records of the two transmitted frames, in transmission order
Transmitted(stream) ==
    LET s == IF Len(stream) = 1 THEN stream[1] ELSE stream[1] \o stream[2]
    IN  <<Decode(SubSeq(s, 4, 17)), Decode(SubSeq(s, 21, 34))>>

\* send_torque_command has written its packet (line 305) on a connected
\* interactive port with acquisition running
InitFifo ==
    /\ serial_port = "open"
    /\ is_connected = TRUE
    /\ firmware_mode = "interactive"
    /\ mode_detection_complete = TRUE
    /\ last_torque_command = 0
    /\ pc = "s_loop" /\ ret = <<"done">>
    /\ torque = 0 /\ force_send = FALSE
    /\ buffer = <<>> /\ polls = 0
    /\ outcome = "waiting" /\ connect_result = "none"
    /\ events = <<Ev("write", "set_torque")>>
    /\ is_data_acquisition_active = TRUE
    /\ wpc = [w \in Workers |-> IF w = 1 THEN "loop" ELSE "off"]
    /\ worker_error = "none"
    /\ last_data = <<>>
    /\ header_data = [w \in Workers |-> <<>>]
    /\ accepted = <<>>
    /\ data_counted = FALSE
    /\ rx = <<>> /\ tx = <<>>
    /\ io_fail = FALSE
    /\ devKind = "interactive"
    /\ devReadings = "plain"
    /\ desiredTorque = F_ZERO
    /\ noiseSent = FALSE
    /\ ackInTime = FALSE
    /\ wire \in FifoStreams
    /\ feed = wire

NextFifo ==
    \/ ArriveScan
    \/ SendPoll \/ SendTimeout \/ MW_Return
    \/ \E w \in Workers : WorkerStep(w)

SpecFifo == InitFifo /\ [][NextFifo]_vars

TypeOK ==
    /\ serial_port \in {"None", "open", "closed"}
    /\ is_connected \in BOOLEAN
    /\ firmware_mode \in {"interactive", "random_torque"}
    /\ polls \in 0..MaxPolls
    /\ Len(ret) <= 3
    /\ outcome \in {"none", "waiting", "acked", "noop", "refused", "error",
                    "timeout"}

\* ----------------------------------------------- reading the event log
Emitted(sig, arg) == \E i \in 1..Len(events) : events[i] = Ev(sig, arg)

Count(sig, arg) == Cardinality({i \in 1..Len(events) : events[i] = Ev(sig, arg)})

\* some pyserial call of the operation raised an exception
IoErrorRaised ==
    \/ Emitted("error_occurred", "connect")
    \/ Emitted("error_occurred", "unexpected")
    \/ Emitted("error_occurred", "send")

\* connect_to_port has returned and the slot has not yet ended
ConnectReturned == pc = "done" /\ connect_result # "none"

\* --------------------------------------------------------------- C1
\* C1: a send_torque_command whose ACK the interactive device delivered
\* before the last poll of the wait loop does not time out, whatever the
\* reader threads do on the same port meanwhile.
C1_SendSafeWithScanner == ackInTime => outcome # "timeout"

\* --------------------------------------------------------------- C2
\* C2: for a device that runs the autonomous firmware (telemetry only, no
\* ACK, any sensor readings), a connect_to_port that met no I/O exception
\* returns True with firmware_mode = "random_torque" and is_connected.
C2_AutonomousDetected ==
    (ConnectReturned /\ devKind = "autonomous" /\ ~IoErrorRaised)
        => /\ connect_result = "True"
           /\ firmware_mode = "random_torque"
           /\ is_connected

\* --------------------------------------------------------------- C3
\* C3: for a device that sends neither an ACK nor more than 10 bytes, a
\* connect_to_port that met no I/O exception returns False with the port
\* released (serial_port None), is_connected False, an error emitted and
\* neither firmware_mode_detected nor connection_changed(True) emitted.
C3_SilentFails ==
    (ConnectReturned /\ devKind = "silent" /\ ~IoErrorRaised)
        => /\ connect_result = "False"
           /\ serial_port = "None"
           /\ ~is_connected
           /\ Emitted("error_occurred", "communicate")
           /\ ~Emitted("firmware_mode_detected", "interactive")
           /\ ~Emitted("firmware_mode_detected", "random_torque")
           /\ ~Emitted("connection_changed", "True")

\* the silent device sent its 10 stray bytes, the probe timed out and the
\* connection attempt was given up
C3_Witness ==
    /\ ConnectReturned /\ devKind = "silent" /\ ~IoErrorRaised
    /\ noiseSent
    /\ Emitted("error_occurred", "ack_timeout")
    /\ connect_result = "False"

\* --------------------------------------------------------------- C4
ModeSignals ==
    Count("firmware_mode_detected", "interactive")
        + Count("firmware_mode_detected", "random_torque")

\* position of the first occurrence of a signal in the log
First(sig, arg) ==
    CHOOSE i \in 1..Len(events) :
        /\ events[i] = Ev(sig, arg)
        /\ \A j \in 1..(i - 1) : events[j] # Ev(sig, arg)

ModeNotifiedOnce ==
    /\ connect_result = "True" =>
          /\ ModeSignals = 1
          /\ Count("firmware_mode_detected", firmware_mode) = 1
          /\ outcome = "acked" => firmware_mode = "interactive"
          /\ Count("connection_changed", "True") = 1
          /\ First("firmware_mode_detected", firmware_mode)
                 < First("connection_changed", "True")
    /\ connect_result = "False" => ModeSignals = 0

\* C4 as stated: every connect_to_port call makes exactly one probe call;
\* True is returned after exactly one firmware_mode_detected, carrying the
\* stored firmware_mode, before connection_changed(True); False after none.
C4_ExactlyOneProbe ==
    ConnectReturned => (Count("call", "probe") = 1 /\ ModeNotifiedOnce)

\* C4 amended: at most one probe call per connect_to_port, and exactly one
\* unless opening the port or resetting its buffers raised an exception;
\* the firmware_mode_detected part as stated.
C4_ProbeOncePerAttempt ==
    ConnectReturned =>
        /\ Count("call", "probe") <= 1
        /\ (Count("call", "probe") = 0 =>
                (connect_result = "False" /\ IoErrorRaised))
        /\ ModeNotifiedOnce

\* a reconnect that ended in Autonomous mode: the implicit disconnect, one
\* probe that timed out, one notification
C4_Witness ==
    /\ ConnectReturned /\ connect_result = "True"
    /\ Emitted("connection_changed", "False")
    /\ Emitted("error_occurred", "ack_timeout")
    /\ firmware_mode = "random_torque"
    /\ Count("call", "probe") = 1

\* --------------------------------------------------------------- C5
\* C5: in Autonomous mode a call of send_torque_command returns True at
\* once: nothing is written to or read from the port, last_torque_command
\* is unchanged and no signal is emitted.
C5_AutonomousNoOp ==
    [][ (pc = "s_begin" /\ firmware_mode = "random_torque" /\ pc' # pc)
            => /\ Succeeded(outcome')
               /\ tx' = tx /\ rx' = rx
               /\ last_torque_command' = last_torque_command
               /\ events' = events ]_vars

\* a torque command of the user returned in Autonomous mode
C5_Witness ==
    /\ pc = "done" /\ outcome = "noop" /\ connect_result = "none"
    /\ firmware_mode = "random_torque" /\ is_connected

\* --------------------------------------------------------------- C6
\* C6: when disconnect is about to close, it has called the zero-torque
\* send exactly once if the port was open in Interactive mode and not at all
\* otherwise; whatever that send returned, the closing step leaves
\* serial_port None, is_connected False, firmware_mode "interactive" and
\* connection_changed(False) as the last signal.
C6_DisconnectCompletes ==
    [][ (pc = "d_close" /\ pc' # pc)
            => /\ Count("call", "zero_torque") =
                      (IF serial_port = "open" /\ firmware_mode = "interactive"
                       THEN 1 ELSE 0)
               /\ Count("write", "set_torque") <= 1
               /\ serial_port' = "None"
               /\ ~is_connected'
               /\ firmware_mode' = "interactive"
               /\ ~mode_detection_complete'
               /\ events' = Append(events, Ev("connection_changed", "False"))
       ]_vars

\* a disconnect whose zero-torque command timed out has completed
C6_Witness ==
    /\ pc = "done" /\ connect_result = "none"
    /\ Emitted("call", "zero_torque")
    /\ outcome = "timeout"
    /\ Emitted("connection_changed", "False")
    /\ serial_port = "None" /\ ~is_connected

C8_IoErrorClosesConnection == worker_error = "io" => ~is_connected

\* --------------------------------------------------------------- C9
InSend == pc \in {"s_begin", "s_loop"}

\* C9: every call of send_torque_command returns; while it waits the
\* accumulated bytes hold no FF FF AA (it returns as soon as they do), it
\* reports Acked only in the step that finds FF FF AA and reports a timeout
\* only once the deadline has elapsed.
C9_SendTerminates ==
    /\ InSend ~> ~InSend
    /\ [](pc = "s_loop" => ~HasAck(buffer))
    /\ [][ /\ (outcome' = "acked" /\ outcome # "acked")
                  => (pc = "s_loop" /\ HasAck(buffer \o rx))
           /\ (outcome' = "timeout" /\ outcome # "timeout")
                  => (pc = "s_loop" /\ DeadlineElapsed(polls)) ]_vars

\* a call returned by timeout after draining telemetry that held no ACK
C9_Witness ==
    /\ pc = "done" /\ outcome = "timeout" /\ connect_result = "none"
    /\ ~Emitted("call", "zero_torque")
    /\ devKind = "interactive" /\ ~ackInTime

\* -------------------------------------------------------------- C10
\* C10: when a stream that holds FF FF AA has been fully delivered while a
\* poll was still to come, the call returns True, however the stream was
\* split into reads and however much telemetry preceded the ACK.
C10_AckFoundAnywhere ==
    (ackInTime /\ feed = <<>>) => (pc = "s_loop" \/ outcome = "acked")

\* the call returned True after a read that ended inside the ACK had cut
\* the buffer down to its last 100 bytes
C10_Witness ==
    /\ pc = "done" /\ outcome = "acked"
    /\ ackInTime /\ feed = <<>>
    /\ Emitted("keep_last", "header")

\* -------------------------------------------------------------- C11
\* IEEE-754 single precision, least significant byte first: 0.0 and 1.0
TorqueBytesLE(t) == IF t = 0 THEN <<0, 0, 0, 0>> ELSE <<0, 0, 128, 63>>

\* C11: the host puts bytes on the wire only in the step of
\* send_torque_command that has passed the guards, and then exactly the 7
\* bytes FF FF 01 and the little-endian torque, in one write; while the call
\* waits for the ACK and when it times out it writes nothing more.
C11_OneFramePerCall ==
    [][ /\ (Len(tx') > Len(tx)) =>
              /\ pc = "s_begin" /\ pc' = "s_loop"
              /\ tx' = tx \o <<255, 255, 1>> \o TorqueBytesLE(torque)
              /\ Len(tx') = Len(tx) + 7
              /\ events' = Append(events, Ev("write", "set_torque"))
        /\ (pc = "s_begin" /\ pc' = "s_loop") => Len(tx') = Len(tx) + 7
        /\ (pc = "s_loop") => Len(tx') <= Len(tx) ]_vars

\* a call for torque 1.0 that timed out after its single write
C11_Witness ==
    /\ pc = "done" /\ outcome = "timeout" /\ connect_result = "none"
    /\ Count("write", "set_torque") = 1
    /\ last_torque_command = 1
    /\ ~Emitted("call", "zero_torque")

\* -------------------------------------------------------------- C12
\* the bool that the caller of send_torque_command receives
ReturnValue(o) == Succeeded(o)

\* the outcome of the specification that an ending of the call belongs to
OutcomeKind(o) ==
    CASE o \in {"acked", "noop"} -> "Acked"
      [] o = "timeout" -> "TimedOut"
      [] OTHER -> "Error"

\* C12: the value returned by send_torque_command tells Acked, TimedOut and
\* Error apart: no ending of another kind returns the same value.
C12_OutcomesDistinct ==
    (pc = "done" /\ outcome \notin {"none", "waiting"}) =>
        \A o \in {"acked", "noop", "timeout", "error", "refused"} :
            ReturnValue(o) = ReturnValue(outcome)
                => OutcomeKind(o) = OutcomeKind(outcome)
\* -------------------------------------------------------------- C13
\* two's-complement negation modulo 256 of the sum of the bytes of s
Negation(s) == (256 - (SumBytes(s) % 256)) % 256

WellFormed(b) ==
    /\ Len(b) = 17
    /\ b[1] = 255 /\ b[2] = 255
    /\ b[3] = 13
    /\ b[4] = 2
    /\ b[17] = Negation(SubSeq(b, 3, 16))

\* C13: whenever read_data_packet returns a record, the bytes it consumed
\* for it are FF FF, the length 13, the command 02, twelve field bytes and
\* the two's-complement checksum of length and payload, and the record is
\* made of those field bytes.
C13_OnlyWellFormed ==
    (last_data # <<>>) =>
        /\ WellFormed(accepted)
        /\ last_data = <<SubSeq(accepted, 5, 8), SubSeq(accepted, 9, 12),
                         SubSeq(accepted, 13, 16)>>

\* a record was returned for the frame that followed a frame whose header
\* or length byte had a flipped bit
C13_Witness ==
    /\ last_data = GoodRecord
    /\ accepted = GoodFrame
    /\ wire \in CorruptStreams
    /\ \E i \in 1..3 : wire[1][i] # GoodFrame[i]

\* -------------------------------------------------------------- C14
\* reader w has accepted a header and the 14 bytes it is about to read
\* carry the command 02 and a checksum that is not the negation of the sum
ChecksumMismatchAhead(w) ==
    /\ wpc[w] = "rest"
    /\ Len(rx) >= 14
    /\ rx[1] = 2
    /\ rx[14] # Negation(<<13>> \o SubSeq(rx, 1, 13))

\* C14: the read that meets a checksum mismatch returns no record, raises
\* error_occurred, does not count the frame, leaves is_connected and the
\* port handle as they were and consumes the 14 bytes of that frame only;
\* and once a corrupted frame was rejected this way, the valid frame that
\* follows it is returned.
C14_ChecksumRecoverable ==
    /\ [][ \A w \in Workers :
             (ChecksumMismatchAhead(w) /\ wpc'[w] # "rest") =>
                 /\ last_data' = <<>>
                 /\ worker_error' = "checksum"
                 /\ data_counted' = FALSE
                 /\ is_connected' = is_connected
                 /\ serial_port' = serial_port
                 /\ wpc'[w] = "loop"
                 /\ rx' = Drop(rx, 14) ]_vars
    /\ (worker_error = "checksum" /\ wire \in CorruptStreams)
           ~> (last_data = GoodRecord /\ data_counted /\ is_connected)

\* the valid frame was returned after a frame with a flipped bit in a float
\* byte had been read and rejected
C14_Witness ==
    /\ last_data = GoodRecord
    /\ data_counted
    /\ wire \in CorruptStreams
    /\ wire[1] \in PayloadFlips(GoodFrame)
    /\ wire[1][4] = 2
    /\ feed = <<>> /\ rx = <<>>

\* -------------------------------------------------------------- C15
\* C15: when the inbound stream is garbage bytes followed by a valid frame,
\* repeated polling eventually returns that frame's record.
C15_ResyncDelivers ==
    (wire \in GarbageStreams /\ feed = wire) ~> (last_data = GoodRecord)

\* the garbage and the valid frame have arrived, the buffer is empty again
\* and no record was returned
C15_FrameLost ==
    /\ wire \in GarbageStreams
    /\ feed = <<>> /\ rx = <<>>
    /\ \A w \in Workers : wpc[w] = "loop"
    /\ last_data = <<>>

\* -------------------------------------------------------------- C16
\* C16: when a valid 17-byte frame arrives in two parts, split after k
\* bytes (1 <= k <= 16), polls made before the second part arrives return
\* no record, raise no error and leave the first part in the input buffer,
\* and the record is returned once the rest has arrived.
C16_SplitTolerated ==
    /\ [](  (wire \in SplitStreams /\ Len(feed) = 1) =>
               /\ rx = wire[1]
               /\ last_data = <<>>
               /\ worker_error = "none" )
    /\ (wire \in SplitStreams /\ feed = wire) ~> (last_data = GoodRecord)

\* the frame arrived as 16 bytes and then 1 byte; the read of 14 bytes ended
\* before the last byte came, the reader is polling again and the frame's
\* last byte is all that is left of it
C16_FrameLost ==
    /\ wire \in SplitStreams
    /\ Len(wire[1]) = 16
    /\ feed = <<>>
    /\ rx = <<GoodFrame[17]>>
    /\ \A w \in Workers : wpc[w] = "loop"
    /\ last_data = <<>>

\* the same for the splits after at most 15 bytes
C16_SplitBelow16 ==
    /\ [](  (wire \in SplitStreams /\ Len(wire[1]) <= 15 /\ Len(feed) = 1) =>
               /\ rx = wire[1]
               /\ last_data = <<>>
               /\ worker_error = "none" )
    /\ (wire \in SplitStreams /\ Len(wire[1]) <= 15 /\ feed = wire)
           ~> (last_data = GoodRecord)

\* -------------------------------------------------------------- C17
\* the floats a frame carries after its command byte, 4 bytes each
FieldsOf(f) ==
    [i \in 1..((f[3] - 1) \div 4) |-> SubSeq(f, 4 * i + 1, 4 * i + 4)]

\* C17: a frame built by either firmware's sendDataPacket, once it has
\* arrived whole, is returned by the reader as a record whose fields are
\* the encoded floats bit for bit.
C17_RoundTrip ==
    (wire \in WholeStreams /\ feed = wire)
        ~> (wire \in WholeStreams /\ last_data = FieldsOf(wire[1]))

\* the same for the frames of the interactive firmware alone
C17_RoundTripV2 ==
    (wire \in WholeStreams /\ wire[1] \in V2Frames /\ feed = wire)
        ~> (wire \in WholeStreams /\ last_data = FieldsOf(wire[1]))

\* a frame of the random-torque firmware arrived, was flushed at the size
\* test and the reader is polling an empty buffer
C17_V3Discarded ==
    /\ wire \in WholeStreams
    /\ wire[1] \in V3Frames
    /\ feed = <<>> /\ rx = <<>>
    /\ \A w \in Workers : wpc[w] = "loop"
    /\ last_data = <<>>

\* -------------------------------------------------------------- C18
\* C18: for every frame built by either firmware's sendDataPacket, the
\* length byte, the payload bytes and the checksum byte add up to 0 modulo
\* 256, and the host's computation (~(size + sum of payload) + 1) & 0xFF
\* over the same bytes gives the frame's checksum byte.
C18_ChecksumValid ==
    (wire \in WholeStreams) =>
        LET f == wire[1]
            n == Len(f) IN
        /\ f \in EncodedFrames
        /\ n = f[3] + 4
        /\ SumBytes(SubSeq(f, 3, n)) % 256 = 0
        /\ HostChecksum(f[3], SubSeq(f, 4, n - 1)) = f[n]

\* the host has accepted a frame whose bytes add up to 256, so that its
\* checksum byte is 00; frames of the 21-byte encoder add up to more
C18_Witness ==
    /\ wire \in WholeStreams
    /\ wire[1] \in V2Frames
    /\ wire[1][17] = 0
    /\ accepted = wire[1]
    /\ \E f \in V3Frames : SumBytes(SubSeq(f, 3, 24)) > 512

\* -------------------------------------------------------------- C19
\* valid frames with one bit inverted in the command byte or a float byte
FlippedPayloads == UNION { PayloadFlips(f) : f \in FlipBases }

\* C19: a valid frame with one bit flipped in its command byte or in one of
\* its float bytes is never the frame a record is returned for: the only
\* record such a stream yields is that of the intact frame that follows.
C19_FlipRejected ==
    (wire \in CorruptStreams /\ wire[1] \in FlippedPayloads) =>
        /\ accepted # wire[1]
        /\ (last_data # <<>>) =>
              /\ accepted = GoodFrame
              /\ last_data = GoodRecord
              /\ feed = <<>>

\* a frame with a flipped float bit was read whole and rejected at the
\* checksum test before the next frame arrived
C19_Witness ==
    /\ wire \in CorruptStreams
    /\ wire[1] \in FlippedPayloads
    /\ worker_error = "checksum"
    /\ last_data = <<>>
    /\ rx = <<>>
    /\ feed = <<GoodFrame>>

\* -------------------------------------------------------------- C20
\* C20: every record delivered through data_received carries the field
\* values of one of the frames the device transmitted, whatever the
\* interleaving of the reader's calls with a command send's reads.
C20_RecordsAreTransmitted ==
    (last_data # <<>>) =>
        \E i \in 1..2 : last_data = Transmitted(wire)[i]

\* the reader returned a record made of the checksum byte of the first
\* frame and the first 13 bytes of the second
C20_Spliced ==
    /\ last_data = <<<<255, 255, 13, 2>>, F_ZERO, F_ZERO>>
    /\ Transmitted(wire) = <<<<F_ZERO, F_ZERO, F_239>>,
                             <<F_ZERO, F_ZERO, F_228>>>>

\* -------------------------------------------------------------- C21
\* C21: a call of read_data_packet that finds fewer than 17 bytes in the
\* input buffer returns no frame and takes nothing out of the buffer.
C21_NoReadBelowFrame ==
    [][ \A w \in Workers :
          (wpc[w] = "loop" /\ Len(rx) < 17 /\ wpc'[w] # wpc[w]) =>
              /\ wpc'[w] = "off"
              /\ rx' = rx ]_vars

\* the same for fewer than 16 bytes: the reader stays in its loop, or leaves
\* it, without touching the buffer
C21_NoReadBelow16 ==
    [][ \A w \in Workers :
          (wpc[w] = "loop" /\ Len(rx) < MIN_AVAILABLE) =>
              /\ wpc'[w] \in {"loop", "off"}
              /\ Len(rx') >= Len(rx)
              /\ last_data' = <<>> ]_vars

\* with 16 bytes in the buffer the call has gone past the availability test
\* and has taken the 3 header bytes
C21_ReadAt16 ==
    /\ wire \in SplitStreams
    /\ Len(wire[1]) = 16
    /\ Len(feed) = 1
    /\ wpc[1] = "rest"
    /\ Len(rx) = 13

\* -------------------------------------------------------------- C22
\* C22: when a complete SET_TORQUE frame follows other bytes (a header pair
\* with an unknown command, bytes that are no header, a stray FF), the
\* parser eventually decodes the frame, applies its torque and writes the
\* ACK.
C22_FrameAfterPrefixDecoded ==
    (wire \in PrefixStreams /\ feed = wire)
        ~> (desiredTorque = F_ONE /\ HasAck(rx))

\* the same for the prefixes that do not end in FF
C22_FrameAfterCleanPrefix ==
    (/\ wire \in PrefixStreams
     /\ feed = wire
     /\ \A pre \in {<<255>>, <<255, 255>>, <<0, 255>>} :
           wire[1] # pre /\ wire[1] # pre \o CommandPacket(1))
        ~> (desiredTorque = F_ONE /\ HasAck(rx))

\* a stray FF and the frame have arrived and have been parsed: the torque
\* bytes are what is left, nothing was applied and no ACK was written
C22_FrameEaten ==
    /\ wire \in PrefixStreams
    /\ feed = <<>>
    /\ Len(tx) < 3
    /\ desiredTorque = F_ZERO
    /\ rx = <<>>

\* -------------------------------------------------------------- C23
\* C23: the interactive firmware writes FF FF AA only in the step that has
\* consumed a complete FF FF 01 frame with its 4 payload bytes and has set
\* desiredTorque to those bytes; desiredTorque changes in no other step;
\* and when the parser gives up on FF FF 01 because the payload is not
\* there, it writes nothing and leaves desiredTorque as it was.
C23_AckAfterTorqueApplied ==
    [][ /\ (rx' # rx) =>
              /\ Len(tx) >= 7
              /\ SubSeq(tx, 1, 3) = <<255, 255, 1>>
              /\ tx' = SubSeq(tx, 8, Len(tx))
              /\ desiredTorque' = SubSeq(tx, 4, 7)
              /\ rx' = rx \o <<255, 255, 170>>
        /\ (desiredTorque' # desiredTorque) => (rx' # rx)
        /\ (/\ Len(tx) \in 3..6
            /\ SubSeq(tx, 1, 3) = <<255, 255, 1>>
            /\ Len(tx') < Len(tx)) =>
              /\ rx' = rx
              /\ desiredTorque' = desiredTorque ]_vars

\* the parser gave up on a frame whose payload was late, dropped the late
\* bytes, then decoded the frame that followed and wrote the one ACK
C23_Witness ==
    /\ wire = LatePayload
    /\ feed = <<>> /\ tx = <<>>
    /\ rx = AckFrame
    /\ desiredTorque = F_ONE

\* -------------------------------------------------------------- C24
\* C24: send_torque_command returns True on the ACK path only when the
\* device wrote an ACK after this call's command frame was written and
\* while the call was still polling.
C24_AckedOnlyByOwnAck == (outcome = "acked") => ackInTime

\* the same for devices whose telemetry holds no FF FF AA: only an ACK left
\* over from an earlier command can be mistaken
C24_NoStaleAck == (outcome = "acked" /\ devReadings = "plain") => ackInTime

\* a call returned True although the device had not yet answered it: its
\* command frame is still unread in the device's buffer
C24_AckedUnanswered ==
    /\ pc = "done" /\ outcome = "acked"
    /\ ~ackInTime
    /\ devKind = "interactive" /\ devReadings = "plain"
    /\ Len(tx) = 7

\* -------------------------------------------------------------- C25
\* connected in random_torque mode to the autonomous firmware, the device
\* plugged in and a reader running
AutonomousReading ==
    /\ is_connected
    /\ firmware_mode = "random_torque"
    /\ devKind = "autonomous"
    /\ ~io_fail
    /\ \E w \in Workers : wpc[w] # "off"

\* C25: if the host stays connected in random_torque mode to the autonomous
\* firmware with a reader running, a record is eventually delivered through
\* data_received.
C25_AutonomousTelemetryDelivered ==
    (<>[]AutonomousReading) => <>(last_data # <<>>)

\* no record is ever delivered from the autonomous firmware
C25_NeverDelivered == (devKind = "autonomous") => (last_data = <<>>)

\* a reader has flushed a frame of the autonomous firmware at the size test
C25_FrameFlushed ==
    /\ AutonomousReading
    /\ rx = <<>>
    /\ \E w \in Workers : wpc[w] = "loop"
    /\ pc = "idle"
    /\ is_data_acquisition_active

\* -------------------------------------------------------------- C26
\* the DataReadingWorker run loops that have been started and have not
\* returned
RunningReaders == { w \in DOMAIN wpc : wpc[w] # "off" }

\* C26: at most one DataReadingWorker run loop is reading the port at any
\* time, whatever the sequence of start, stop, connect and disconnect.
C26_AtMostOneReader == Cardinality(RunningReaders) <= 1

\* on one connection, acquisition was started, stopped and started again:
\* two readers poll the port
C26_TwoReaders ==
    /\ Cardinality(RunningReaders) = 2
    /\ is_connected
    /\ is_data_acquisition_active
    /\ pc = "idle"

\* -------------------------------------------------------------- C27
\* C27: once stop_data_acquisition has returned, every running reader
\* eventually leaves its loop, unless acquisition is started again first.
C27_StopStopsReader ==
    \A w \in Workers :
        (wpc[w] # "off" /\ ~is_data_acquisition_active /\ pc = "idle")
            ~> (wpc[w] = "off" \/ is_data_acquisition_active)

\* acquisition is stopped, the connection is open, and a reader has just
\* delivered a record and counted it
C27_DeliveredWhileStopped ==
    /\ ~is_data_acquisition_active
    /\ is_connected
    /\ pc = "idle"
    /\ last_data # <<>>
    /\ data_counted
    /\ \E w \in Workers : wpc[w] = "loop"

\* -------------------------------------------------------------- C28
\* C28: when connect_to_port has returned False, serial_port is None or a
\* closed port and is_connected is False.
C28_NoHandleLeak ==
    (ConnectReturned /\ connect_result = "False") =>
        /\ serial_port \in {"None", "closed"}
        /\ ~is_connected

\* the same for the attempts that met no exception
C28_NoLeakWithoutException ==
    (ConnectReturned /\ connect_result = "False" /\ ~IoErrorRaised) =>
        /\ serial_port \in {"None", "closed"}
        /\ ~is_connected

\* connect_to_port returned False through an exception handler and left the
\* port it had opened open
C28_HandleLeaked ==
    /\ ConnectReturned
    /\ connect_result = "False"
    /\ serial_port = "open"
    /\ ~is_connected
    /\ Emitted("error_occurred", "unexpected")

\* -------------------------------------------------------------- C29
\* C29: between MainWindow operations is_data_acquisition_active implies
\* is_connected; acquisition becomes active only on an established
\* connection; and every step that ends the connection leaves acquisition
\* inactive.
C29_ActiveImpliesConnected ==
    /\ []((pc = "idle" /\ is_data_acquisition_active) => is_connected)
    /\ [][ /\ (~is_data_acquisition_active /\ is_data_acquisition_active')
                => (is_connected /\ is_connected')
           /\ (is_connected /\ ~is_connected')
                => ~is_data_acquisition_active' ]_vars

\* a reconnect has just disconnected the old connection: the connection is
\* down, acquisition is inactive and the old reader has not yet left its loop
C29_Witness ==
    /\ pc = "c_open"
    /\ Emitted("connection_changed", "False")
    /\ ~is_connected
    /\ ~is_data_acquisition_active
    /\ \E w \in Workers : wpc[w] # "off"

\* -------------------------------------------------------------- C30
\* no operation of SerialCommunicationManager is in progress
AtBoundary == pc \in {"idle", "done"}

\* C30: at every operation boundary, is_connected implies that serial_port
\* is an open handle, mode_detection_complete holds exactly when
\* is_connected holds, and firmware_mode is random_torque only while
\* is_connected holds.
C30_ConnectionStateConsistent ==
    AtBoundary =>
        /\ is_connected => serial_port = "open"
        /\ mode_detection_complete <=> is_connected
        /\ (firmware_mode = "random_torque") => is_connected
        /\ ~is_connected => firmware_mode = "interactive"

\* a connection in random_torque mode has been disconnected and the mode is
\* interactive again
C30_Witness ==
    /\ pc = "done"
    /\ Emitted("connection_changed", "False")
    /\ devKind = "autonomous"
    /\ ~is_connected
    /\ serial_port = "None"
    /\ firmware_mode = "interactive"
    /\ ~mode_detection_complete
    /\ ~Emitted("call", "zero_torque")

====
